---- MODULE Spec2Model ----
(***************************************************************************)
(* Model of clean_and_analyze.py: the cleaning pipeline for the Apple      *)
(* Store and Google Play datasets.                                         *)
(*                                                                         *)
(* Representation.  A Python str is the sequence of its code points, a     *)
(* row is a sequence of str, a dataset is a sequence of rows.  Python      *)
(* index i (0-based) is TLA+ index i + 1.  A Python dict is a function;    *)
(* where the code iterates a dict, its keys are kept as a sequence in      *)
(* insertion order.  A Python float is a record: NaN, or a non-negative    *)
(* rational num / den.  A function that can raise returns                  *)
(* [err |-> kind, val |-> value] with kind = "none" when it returns.       *)
(***************************************************************************)
EXTENDS Integers, Sequences, FiniteSets, TLC

(* ------------------------------ bounds -------------------------------- *)
MaxValidatorRows == 3
MaxValidatorFields == 2
MaxDedupRows == 3
MaxNameLen == 5
MaxFilterRows == 2
MaxAnalysisRows == 3
MaxFileRows == 2

(* ------------------------- program constants -------------------------- *)
AsciiMax == 127
NonAsciiLimit == 3
GoogleNameIdx == 0
GoogleCategoryIdx == 1
GoogleReviewsIdx == 3
GoogleInstallsIdx == 5
GooglePriceIdx == 7
AppleNameIdx == 1
ApplePriceIdx == 4
AppleRatingIdx == 5
AppleGenreIdx == 11

(* --------------------------- Python values ---------------------------- *)
Range(s) == { s[i] : i \in DOMAIN s }

SeqsUpTo(S, n) == UNION { [1..k -> S] : k \in 0..n }

Ok(v) == [err |-> "none", val |-> v]

Raise(kind) == [err |-> kind, val |-> <<>>]

\* row[index] of a Python list: IndexError when index >= len(row).
InRange(row, index) == index + 1 <= Len(row)

Item(row, index) == row[index + 1]

\* del dataset[i] (i is the 0-based Python index)
DelItem(dataset, i) ==
  SubSeq(dataset, 1, i) \o SubSeq(dataset, i + 2, Len(dataset))

(* Code points used by the string literals of the model. *)
chr_plus == 43
chr_comma == 44
chr_dot == 46
chr_0 == 48
chr_9 == 57

str_0 == <<48>>
str_0_0 == <<48, 46, 48>>
str_0_00 == <<48, 46, 48, 48>>
str_1_99 == <<49, 46, 57, 57>>
str_5 == <<53>>
str_9 == <<57>>
str_9_0 == <<57, 46, 48>>
str_nan == <<110, 97, 110>>
str_3_0M == <<51, 46, 48, 77>>
str_A == <<65>>
str_B == <<66>>
str_x == <<120>>
str_y == <<121>>
str_GAME == <<71>>
str_TOOLS == <<84>>
str_10_plus == <<49, 48, 43>>
str_1_000_plus == <<49, 44, 48, 48, 48, 43>>
str_Free == <<70, 114, 101, 101>>
\* a name with four code points above 127
str_cjk == <<29233, 22855, 33402, 12298>>
\* a name with exactly three code points above 127
str_tm3 == <<65, 8482, 8482, 8482>>

(* ------------------------------- float -------------------------------- *)
NaN == [nan |-> TRUE, num |-> 0, den |-> 1]

Float(n, d) == [nan |-> FALSE, num |-> n, den |-> d]

FloatLt(a, b) == ~a.nan /\ ~b.nan /\ a.num * b.den < b.num * a.den

FloatEq(a, b) == ~a.nan /\ ~b.nan /\ a.num * b.den = b.num * a.den

FloatAdd(a, b) ==
  IF a.nan \/ b.nan THEN NaN
  ELSE Float(a.num * b.den + b.num * a.den, a.den * b.den)

IsDigit(c) == chr_0 <= c /\ c <= chr_9

RECURSIVE DigitsValue(_, _, _)
DigitsValue(s, i, acc) ==
  IF i > Len(s) THEN acc
  ELSE DigitsValue(s, i + 1, 10 * acc + (s[i] - chr_0))

RECURSIVE Pow10(_)
Pow10(k) == IF k = 0 THEN 1 ELSE 10 * Pow10(k - 1)

\* float(s) on the strings of the model: "nan", or digits with at most one
\* decimal point and at least one digit; anything else raises ValueError.
float(s) ==
  LET dots == { i \in DOMAIN s : s[i] = chr_dot }
      digits == SelectSeq(s, IsDigit)
  IN  IF s = str_nan THEN Ok(NaN)
      ELSE IF /\ Cardinality(dots) <= 1
              /\ Len(digits) >= 1
              /\ Len(digits) + Cardinality(dots) = Len(s)
           THEN LET frac == IF dots = {} THEN 0
                            ELSE Len(s) - (CHOOSE i \in dots : TRUE)
                IN  Ok(Float(DigitsValue(digits, 1, 0), Pow10(frac)))
           ELSE Raise("ValueError")

(* ---------------------------- delwrongdata ---------------------------- *)
\* the first loop: 0-based indices of the rows whose length is not ref_len
RECURSIVE FindWrongIndices(_, _, _, _)
FindWrongIndices(dataset, ref_len, i, wrong_indices) ==
  IF i >= Len(dataset) THEN wrong_indices
  ELSE FindWrongIndices(dataset, ref_len, i + 1,
         IF Len(Item(dataset, i)) # ref_len
         THEN Append(wrong_indices, i) ELSE wrong_indices)

\* a deletion loop that walks wrong_indices front to back: every deletion
\* shifts the rows behind it, so later indices name other rows
RECURSIVE DeleteForward(_, _, _)
DeleteForward(dataset, wrong_indices, k) ==
  IF wrong_indices = <<>> THEN dataset
  ELSE LET i == Head(wrong_indices)
       IN  DeleteForward(IF i < Len(dataset) THEN DelItem(dataset, i) ELSE dataset,
                         Tail(wrong_indices), k)

\* the second loop: for i in reversed(wrong_indices): del dataset[i]
\* k is the number of indices still to delete
RECURSIVE DeleteReversed(_, _, _)
DeleteReversed(dataset, wrong_indices, k) ==
  IF k = 0 THEN dataset
  ELSE DeleteReversed(DelItem(dataset, wrong_indices[k]), wrong_indices, k - 1)

\* delwrongdata without the read of dataset[0] failing on an empty list
delwrongdata_empty_ok(dataset) ==
  IF dataset = <<>> THEN Ok(<<>>)
  ELSE LET ref_len == Len(Item(dataset, 0))
           wrong_indices == FindWrongIndices(dataset, ref_len, 0, <<>>)
       IN  Ok(DeleteReversed(dataset, wrong_indices, Len(wrong_indices)))

\* the contents of the list after delwrongdata(dataset), or the exception
delwrongdata(dataset) ==
  IF ~InRange(dataset, 0) THEN Raise("IndexError")
  ELSE LET ref_len == Len(Item(dataset, 0))
           wrong_indices == FindWrongIndices(dataset, ref_len, 0, <<>>)
       IN  Ok(DeleteReversed(dataset, wrong_indices, Len(wrong_indices)))

(* ------------------------- duplicate resolver ------------------------- *)
\* finduplicate only prints; what it can do to the run is raise on app[0]
finduplicate(dataset) ==
  IF \E i \in DOMAIN dataset : ~InRange(dataset[i], GoogleNameIdx)
  THEN Raise("IndexError") ELSE Ok(<<>>)

\* the if / elif of createdicodup's loop body
UpdateReviewsMax(reviews_max, name, n_reviews) ==
  IF name \in DOMAIN reviews_max /\ FloatLt(reviews_max[name], n_reviews)
  THEN [reviews_max EXCEPT ![name] = n_reviews]
  ELSE IF name \notin DOMAIN reviews_max
       THEN reviews_max @@ (name :> n_reviews)
       ELSE reviews_max

RECURSIVE createdicodup_loop(_, _, _)
createdicodup_loop(dataset, i, reviews_max) ==
  IF i >= Len(dataset) THEN Ok(reviews_max)
  ELSE LET app == Item(dataset, i)
       IN  IF ~InRange(app, GoogleNameIdx) \/ ~InRange(app, GoogleReviewsIdx)
           THEN Raise("IndexError")
           ELSE LET name == Item(app, GoogleNameIdx)
                    n_reviews == float(Item(app, GoogleReviewsIdx))
                IN  IF n_reviews.err # "none" THEN Raise(n_reviews.err)
                    ELSE createdicodup_loop(dataset, i + 1,
                           UpdateReviewsMax(reviews_max, name, n_reviews.val))

createdicodup(dataset) == createdicodup_loop(dataset, 0, <<>>)

\* the test of deldupdata's loop body
KeepsRow(name, n_reviews, already_added, reviews_max) ==
  (name \notin Range(already_added)) /\ FloatEq(reviews_max[name], n_reviews)

RECURSIVE deldupdata_loop(_, _, _, _, _)
deldupdata_loop(dataset, reviews_max, i, android_clean, already_added) ==
  IF i >= Len(dataset) THEN Ok(android_clean)
  ELSE LET app == Item(dataset, i)
       IN  IF ~InRange(app, GoogleNameIdx) \/ ~InRange(app, GoogleReviewsIdx)
           THEN Raise("IndexError")
           ELSE LET name == Item(app, GoogleNameIdx)
                    n_reviews == float(Item(app, GoogleReviewsIdx))
                IN  IF n_reviews.err # "none" THEN Raise(n_reviews.err)
                    ELSE IF name \notin Range(already_added)
                            /\ name \notin DOMAIN reviews_max
                    THEN Raise("KeyError")
                    ELSE IF KeepsRow(name, n_reviews.val, already_added, reviews_max)
                    THEN deldupdata_loop(dataset, reviews_max, i + 1,
                           Append(android_clean, app), Append(already_added, name))
                    ELSE deldupdata_loop(dataset, reviews_max, i + 1,
                           android_clean, already_added)

deldupdata(dataset, reviews_max) ==
  deldupdata_loop(dataset, reviews_max, 0, <<>>, <<>>)

(* --------------------------- language filter -------------------------- *)
\* is_english's loop with the limit test off by one (>= instead of >)
RECURSIVE is_english_loop_ge(_, _, _)
is_english_loop_ge(name, i, non_ascii) ==
  IF i >= Len(name) THEN TRUE
  ELSE LET n == IF Item(name, i) > AsciiMax THEN non_ascii + 1 ELSE non_ascii
       IN  IF n >= NonAsciiLimit THEN FALSE
           ELSE is_english_loop_ge(name, i + 1, n)

\* the loop of is_english from character i on, non_ascii counted so far;
\* FALSE is the early return inside the loop
RECURSIVE is_english_loop(_, _, _)
is_english_loop(name, i, non_ascii) ==
  IF i >= Len(name) THEN TRUE
  ELSE LET n == IF Item(name, i) > AsciiMax THEN non_ascii + 1 ELSE non_ascii
       IN  IF n > NonAsciiLimit THEN FALSE
           ELSE is_english_loop(name, i + 1, n)

is_english(name) == is_english_loop(name, 0, 0)

(* -------------------------- frequency table --------------------------- *)
EmptyDict == [keys |-> <<>>, at |-> <<>>]

\* the first loop of freq_table: table[genre] counts, keys in insertion order
RECURSIVE freq_count_loop(_, _, _, _)
freq_count_loop(database, index, i, table) ==
  IF i >= Len(database) THEN Ok(table)
  ELSE LET row == Item(database, i)
       IN  IF ~InRange(row, index) THEN Raise("IndexError")
           ELSE LET genre == Item(row, index)
                IN  freq_count_loop(database, index, i + 1,
                      IF genre \in Range(table.keys)
                      THEN [table EXCEPT !.at[genre] = @ + 1]
                      ELSE [keys |-> Append(table.keys, genre),
                            at |-> table.at @@ (genre :> 1)])

\* freq_table(database, index): key -> (table[key] / total) * 100.  total is
\* len(database); the division runs once per key, so never with total = 0.
freq_table(database, index) ==
  LET counted == freq_count_loop(database, index, 0, EmptyDict)
      total == Len(database)
  IN  IF counted.err # "none" THEN counted
      ELSE Ok([keys |-> counted.val.keys,
               at |-> [key \in Range(counted.val.keys) |->
                         Float(counted.val.at[key] * 100, total)]])

(* ------------------------- aggregate analyzers ------------------------ *)
RECURSIVE RemoveChar(_, _)
RemoveChar(s, c) ==
  IF s = <<>> THEN <<>>
  ELSE IF Head(s) = c THEN RemoveChar(Tail(s), c)
       ELSE <<Head(s)>> \o RemoveChar(Tail(s), c)

\* installs.replace('+', '').replace(',', '')
NormalizeInstalls(installs) == RemoveChar(RemoveChar(installs, chr_plus), chr_comma)

\* the inner loop of both analyzers: total and count of the rows of one group;
\* strip says whether the value is normalised as an installs string
RECURSIVE group_loop(_, _, _, _, _, _, _, _)
group_loop(data, group_idx, value_idx, strip, group, i, total, len_group) ==
  IF i >= Len(data) THEN Ok([total |-> total, count |-> len_group])
  ELSE LET row == Item(data, i)
       IN  IF ~InRange(row, group_idx) THEN Raise("IndexError")
           ELSE IF Item(row, group_idx) # group
           THEN group_loop(data, group_idx, value_idx, strip, group, i + 1,
                           total, len_group)
           ELSE IF ~InRange(row, value_idx) THEN Raise("IndexError")
           ELSE LET raw == Item(row, value_idx)
                    value == float(IF strip THEN NormalizeInstalls(raw) ELSE raw)
                IN  IF value.err # "none" THEN Raise(value.err)
                    ELSE group_loop(data, group_idx, value_idx, strip, group,
                                    i + 1, FloatAdd(total, value.val), len_group + 1)

\* the outer loop: one average per key of the frequency table, in key order.
\* An average is kept as the quotient total / count it is computed from.
RECURSIVE averages_loop(_, _, _, _, _, _, _)
averages_loop(data, group_idx, value_idx, strip, freq_keys, k, results) ==
  IF k > Len(freq_keys) THEN Ok(results)
  ELSE LET group == freq_keys[k]
           sums == group_loop(data, group_idx, value_idx, strip, group, 0,
                              Float(0, 1), 0)
       IN  IF sums.err # "none" THEN sums
           ELSE IF sums.val.count = 0 THEN Raise("ZeroDivisionError")
           ELSE averages_loop(data, group_idx, value_idx, strip, freq_keys, k + 1,
                  [keys |-> IF group \in Range(results.keys) THEN results.keys
                            ELSE Append(results.keys, group),
                   at |-> IF group \in DOMAIN results.at
                          THEN [results.at EXCEPT ![group] = sums.val]
                          ELSE results.at @@ (group :> sums.val)])

\* a frequency table keyed on the column before the one the averages group by
genre_freq_wrong_column(apple_data) == freq_table(apple_data, AppleGenreIdx - 1)

\* genre_freq = freq_table(apple_data, 11)
genre_freq_of(apple_data) == freq_table(apple_data, AppleGenreIdx)

compute_apple_genre_avg_ratings(apple_data) ==
  LET genre_freq == genre_freq_of(apple_data)
  IN  IF genre_freq.err # "none" THEN genre_freq
      ELSE averages_loop(apple_data, AppleGenreIdx, AppleRatingIdx, FALSE,
                         genre_freq.val.keys, 1, EmptyDict)

\* category_freq = freq_table(google_data, 1)
category_freq_of(google_data) == freq_table(google_data, GoogleCategoryIdx)

compute_google_category_avg_installs(google_data) ==
  LET category_freq == category_freq_of(google_data)
  IN  IF category_freq.err # "none" THEN category_freq
      ELSE averages_loop(google_data, GoogleCategoryIdx, GoogleInstallsIdx, TRUE,
                         category_freq.val.keys, 1, EmptyDict)

(* ----------------------- filter_english_and_free ---------------------- *)
\* for app in data: if is_english(app[name_idx]): out.append(app)
RECURSIVE english_loop(_, _, _, _)
english_loop(data, name_idx, i, out) ==
  IF i >= Len(data) THEN Ok(out)
  ELSE LET app == Item(data, i)
       IN  IF ~InRange(app, name_idx) THEN Raise("IndexError")
           ELSE english_loop(data, name_idx, i + 1,
                  IF is_english(Item(app, name_idx)) THEN Append(out, app) ELSE out)

\* price == '0'
IsFreeGoogle(price) == price = str_0

\* a price test that compares numbers instead of strings
IsFreeAppleNumeric(price) ==
  LET p == float(price) IN p.err = "none" /\ FloatEq(p.val, Float(0, 1))

\* price == '0.0' or price == '0'
IsFreeApple(price) == price = str_0_0 \/ price = str_0

\* for app in data: if <price test>(app[price_idx]): out.append(app)
RECURSIVE free_loop(_, _, _, _, _)
free_loop(data, price_idx, apple, i, out) ==
  IF i >= Len(data) THEN Ok(out)
  ELSE LET app == Item(data, i)
       IN  IF ~InRange(app, price_idx) THEN Raise("IndexError")
           ELSE LET price == Item(app, price_idx)
                    free == IF apple THEN IsFreeApple(price) ELSE IsFreeGoogle(price)
                IN  free_loop(data, price_idx, apple, i + 1,
                              IF free THEN Append(out, app) ELSE out)

\* the four loops in the order they run; the first one to raise ends the call
filter_english_and_free(google_data, apple_data) ==
  LET android_english == english_loop(google_data, GoogleNameIdx, 0, <<>>)
      ios_english == english_loop(apple_data, AppleNameIdx, 0, <<>>)
  IN  IF android_english.err # "none" THEN android_english
      ELSE IF ios_english.err # "none" THEN ios_english
      ELSE LET android_free ==
                 free_loop(android_english.val, GooglePriceIdx, FALSE, 0, <<>>)
               apple_free ==
                 free_loop(ios_english.val, ApplePriceIdx, TRUE, 0, <<>>)
           IN  IF android_free.err # "none" THEN android_free
               ELSE IF apple_free.err # "none" THEN apple_free
               ELSE Ok([android_english |-> android_english.val,
                        ios_english |-> ios_english.val,
                        android_free |-> android_free.val,
                        apple_free |-> apple_free.val])

(* ------------------------------- state -------------------------------- *)
VARIABLES
  pc,                  \* position of the running caller
  err,                 \* "none", or the exception that ended the run
  heap,                \* list objects passed by reference: object -> contents
  arg,                 \* the list object the caller passes to delwrongdata
  ret,                 \* the list object delwrongdata returned, or "none"
  before,              \* contents of arg when delwrongdata was first called
  after_first,         \* contents of the result of the first delwrongdata call
  google_data,         \* main's google_data
  apple_data,          \* main's apple_data
  header_google_data,
  header_apple_data,
  reviews_max,         \* the dict createdicodup returned
  android_clean,       \* the list deldupdata returned
  android_english,     \* locals of filter_english_and_free
  ios_english,
  android_free,
  apple_free,
  apple_genre_avgs,    \* the dict compute_apple_genre_avg_ratings returned
  google_category_avgs,
  name,                \* the argument of is_english
  english,             \* what is_english returned
  stagesGoogle,        \* the stages whose output google_data holds, in order
  stagesApple          \* the stages whose output apple_data holds, in order

callVars == <<heap, arg, ret, before, after_first>>
dataVars == <<google_data, apple_data>>
headerVars == <<header_google_data, header_apple_data>>
dedupVars == <<reviews_max, android_clean>>
filterVars == <<android_english, ios_english, android_free, apple_free>>
analysisVars == <<apple_genre_avgs, google_category_avgs>>
langVars == <<name, english>>
stageVars == <<stagesGoogle, stagesApple>>

vars == <<pc, err, callVars, dataVars, headerVars, dedupVars, filterVars,
          analysisVars, langVars, stageVars>>

NoCall ==
  heap = <<>> /\ arg = "none" /\ ret = "none" /\ before = <<>> /\ after_first = <<>>
NoData == google_data = <<>> /\ apple_data = <<>>
NoHeaders == header_google_data = <<>> /\ header_apple_data = <<>>
NoDedup == reviews_max = <<>> /\ android_clean = <<>>
NoFilter ==
  android_english = <<>> /\ ios_english = <<>> /\ android_free = <<>> /\ apple_free = <<>>
NoAnalysis == apple_genre_avgs = EmptyDict /\ google_category_avgs = EmptyDict
NoLang == name = <<>> /\ english = FALSE
NoStages == stagesGoogle = <<>> /\ stagesApple = <<>>

(* ------------------- delwrongdata called by reference ----------------- *)
ValidatorFields == {str_x, str_y}

ValidatorRows == SeqsUpTo(ValidatorFields, MaxValidatorFields)

ValidatorDatasets == SeqsUpTo(ValidatorRows, MaxValidatorRows)

InitValidator ==
  /\ pc = "call" /\ err = "none"
  /\ \E dataset \in ValidatorDatasets :
       /\ heap = ("o1" :> dataset)
       /\ before = dataset
  /\ arg = "o1" /\ ret = "none" /\ after_first = <<>>
  /\ NoData /\ NoHeaders /\ NoDedup /\ NoFilter /\ NoAnalysis /\ NoLang /\ NoStages

\* a delwrongdata that builds a new list and leaves its argument alone
DelwrongdataCopy ==
  /\ pc = "call"
  /\ LET r == delwrongdata(heap[arg])
     IN  IF r.err # "none"
         THEN /\ err' = r.err /\ pc' = "failed"
              /\ UNCHANGED <<heap, ret>>
         ELSE /\ heap' = heap @@ ("o2" :> r.val)
              /\ ret' = "o2"
              /\ pc' = "called" /\ UNCHANGED err
  /\ UNCHANGED <<arg, before, after_first, dataVars, headerVars, dedupVars,
                 filterVars, analysisVars, langVars, stageVars>>

\* result = delwrongdata(dataset): the rows are deleted from the list object
\* passed in (del dataset[i]), and that same object is returned
Delwrongdata ==
  /\ pc = "call"
  /\ LET r == delwrongdata(heap[arg])
     IN  IF r.err # "none"
         THEN /\ err' = r.err /\ pc' = "failed"
              /\ UNCHANGED <<heap, ret>>
         ELSE /\ heap' = [heap EXCEPT ![arg] = r.val]
              /\ ret' = arg
              /\ pc' = "called" /\ UNCHANGED err
  /\ UNCHANGED <<arg, before, after_first, dataVars, headerVars, dedupVars,
                 filterVars, analysisVars, langVars, stageVars>>

\* delwrongdata(result): the validator applied to its own result
DelwrongdataAgain ==
  /\ pc = "called"
  /\ after_first' = heap[ret]
  /\ LET r == delwrongdata(heap[ret])
     IN  IF r.err # "none"
         THEN /\ err' = r.err /\ pc' = "failed"
              /\ UNCHANGED <<heap, ret>>
         ELSE /\ heap' = [heap EXCEPT ![ret] = r.val]
              /\ ret' = ret
              /\ pc' = "called_again" /\ UNCHANGED err
  /\ UNCHANGED <<arg, before, dataVars, headerVars, dedupVars,
                 filterVars, analysisVars, langVars, stageVars>>

NextValidator == Delwrongdata \/ DelwrongdataAgain

SpecValidator == InitValidator /\ [][NextValidator]_vars

(* The rows of s at the indices in K, in increasing index order. *)
RowsAt(s, K) ==
  [j \in 1..Cardinality(K) |->
     s[CHOOSE i \in K : Cardinality({m \in K : m < i}) = j - 1]]

\* the indices of the rows of D as long as D's first row
Conforming(D) == { i \in DOMAIN D : Len(D[i]) = Len(D[1]) }

\* C2: for a non-empty dataset, the result of delwrongdata holds exactly the
\* rows as long as the first row, every other row is absent, and the rows
\* kept are in their original relative order.
C2_ValidatorKeepsConformingRows ==
  (pc = "called") =>
     /\ heap[ret] = RowsAt(before, Conforming(before))
     /\ \A i \in DOMAIN heap[ret] : Len(heap[ret][i]) = Len(before[1])
     /\ \A i \in DOMAIN before :
          (i \notin Conforming(before)) => before[i] \notin Range(heap[ret])

\* a wrong row was deleted from between two rows that were kept
C2_Witness ==
  /\ pc = "called"
  /\ Len(before) = 3
  /\ Conforming(before) = {1, 3}
  /\ heap[ret] = <<before[1], before[3]>>

\* C3 (as amended): delwrongdata deletes the wrong rows from the list it was
\* given and returns that same list: after the call the caller's dataset is
\* the result, and holds none of the excluded rows.
C3_ValidatorMutatesInPlace ==
  (pc = "called") =>
     /\ ret = arg
     /\ DOMAIN heap = {arg}
     /\ Len(heap[arg]) = Cardinality(Conforming(before))
     /\ \A i \in DOMAIN before :
          (i \notin Conforming(before)) => before[i] \notin Range(heap[arg])

\* the call removed a row from the caller's dataset
C3_Witness ==
  /\ pc = "called"
  /\ ret = arg
  /\ Len(heap[arg]) < Len(before)

\* C3 (as claimed): after the call the caller's input dataset holds the same
\* rows in the same order as before the call.
C3_InputUnmodified ==
  (pc = "called") => heap[arg] = before

\* C4 (as amended): on a dataset with zero rows delwrongdata fails with the
\* IndexError of reading dataset[0], and returns nothing.
C4_EmptyRaisesIndexError ==
  (before = <<>> /\ pc # "call") =>
     (pc = "failed" /\ err = "IndexError" /\ ret = "none" /\ heap[arg] = <<>>)

\* the call on the empty dataset has failed
C4_Witness == before = <<>> /\ pc = "failed" /\ err # "none"

\* C4 (as claimed): on a dataset with zero rows the stage fails with an
\* EmptyDatasetError and produces no output dataset.
C4_EmptyRaisesEmptyDatasetError ==
  (before = <<>> /\ pc # "call") =>
     (pc = "failed" /\ err = "EmptyDatasetError" /\ ret = "none")

\* C5: delwrongdata applied to its own result returns the same rows, and
\* that second application removes no row.
C5_ValidatorIdempotent ==
  (pc = "called_again") =>
     /\ err = "none"
     /\ heap[ret] = after_first
     /\ Len(heap[ret]) = Len(after_first)

\* the second application ran on a result the first had removed rows from
C5_Witness ==
  /\ pc = "called_again"
  /\ Len(after_first) < Len(before)
  /\ Len(after_first) >= 2

(* --------------------- the duplicate resolver alone ------------------- *)
\* a Google Play row: App, Category, Rating, Reviews, Size, Installs, Type, Price
GoogleRow(app_name, category, n_reviews, installs, price) ==
  <<app_name, category, <<>>, n_reviews, <<>>, installs, <<>>, price>>

DedupNames == {str_A, str_B}

DedupReviews == {str_5, str_9, str_9_0, str_nan, str_3_0M}

DedupRows ==
  { GoogleRow(n, str_GAME, r, str_10_plus, str_0) : n \in DedupNames, r \in DedupReviews }
    \cup { <<str_A>> }

DedupDatasets == SeqsUpTo(DedupRows, MaxDedupRows)

InitDedup ==
  /\ pc = "index" /\ err = "none"
  /\ google_data \in DedupDatasets
  /\ apple_data = <<>>
  /\ NoCall /\ NoHeaders /\ NoDedup /\ NoFilter /\ NoAnalysis /\ NoLang /\ NoStages

\* reviews_max = createdicodup(google_data)
Createdicodup ==
  /\ pc = "index"
  /\ LET r == createdicodup(google_data)
     IN  IF r.err # "none"
         THEN /\ err' = r.err /\ pc' = "failed" /\ UNCHANGED reviews_max
         ELSE /\ reviews_max' = r.val /\ pc' = "filter" /\ UNCHANGED err
  /\ UNCHANGED <<android_clean, callVars, dataVars, headerVars, filterVars,
                 analysisVars, langVars, stageVars>>

\* google_data_clean = deldupdata(google_data, reviews_max): the function only
\* reads its two arguments and appends to its own new list
Deldupdata ==
  /\ pc = "filter"
  /\ LET r == deldupdata(google_data, reviews_max)
     IN  IF r.err # "none"
         THEN /\ err' = r.err /\ pc' = "failed" /\ UNCHANGED android_clean
         ELSE /\ android_clean' = r.val /\ pc' = "done" /\ UNCHANGED err
  /\ UNCHANGED <<reviews_max, callVars, dataVars, headerVars, filterVars,
                 analysisVars, langVars, stageVars>>

NextDedup == Createdicodup \/ Deldupdata

SpecDedup == InitDedup /\ [][NextDedup]_vars

NameOf(app) == Item(app, GoogleNameIdx)

ReviewsOf(app) == float(Item(app, GoogleReviewsIdx)).val

\* the indices of the rows of data named n
Named(data, n) == { i \in DOMAIN data : NameOf(data[i]) = n }

\* the row at i has a review count no row named like it exceeds
AtMax(data, i) ==
  \A k \in Named(data, NameOf(data[i])) :
     ~FloatLt(ReviewsOf(data[i]), ReviewsOf(data[k]))

\* what the resolver is to return for name n: exactly one row, with the
\* maximum review count, the first of the rows that tie at it
ResolvedName(n) ==
  /\ Cardinality(Named(android_clean, n)) = 1
  /\ \E i \in Named(google_data, n) :
       /\ android_clean[CHOOSE j \in Named(android_clean, n) : TRUE] = google_data[i]
       /\ AtMax(google_data, i)
       /\ \A k \in Named(google_data, n) :
            FloatEq(ReviewsOf(google_data[k]), ReviewsOf(google_data[i])) => i <= k

\* C1: for every dataset and every name in it, the output of createdicodup
\* followed by deldupdata has exactly one row of that name, with the maximum
\* review count of the rows of that name, the first of those that tie at it.
C1_OneRowPerNameWithMaxReviews ==
  (pc = "done") =>
     \A i \in DOMAIN google_data : ResolvedName(NameOf(google_data[i]))

\* no review count of the dataset parses to NaN
NoNaNReviews == \A i \in DOMAIN google_data : ~ReviewsOf(google_data[i]).nan

\* C1 holds of every dataset whose review counts are all numbers
C1_HoldsWithoutNaN ==
  (pc = "done" /\ NoNaNReviews) =>
     \A i \in DOMAIN google_data : ResolvedName(NameOf(google_data[i]))

\* a tie at the maximum was resolved: three rows of one name, the last two tied
C1_TieResolved ==
  /\ pc = "done" /\ NoNaNReviews
  /\ Len(google_data) = 3 /\ Len(android_clean) = 1
  /\ android_clean[1] = google_data[2]
  /\ google_data[2] # google_data[3]
  /\ FloatEq(ReviewsOf(google_data[2]), ReviewsOf(google_data[3]))

\* s is t with some rows left out
IsSubsequence(s, t) ==
  \E K \in SUBSET DOMAIN t : s = RowsAt(t, K)

\* C10: deldupdata returns a subsequence of its input, as long as the review
\* index has keys, and leaves both the input and the review index unchanged.
C10_DeldupdataSubsequenceAndFrame ==
  [][ (pc = "filter" /\ pc' = "done") =>
        /\ IsSubsequence(android_clean', google_data)
        /\ Len(android_clean') = Cardinality(DOMAIN reviews_max)
        /\ google_data' = google_data
        /\ reviews_max' = reviews_max ]_vars

\* C10 without the length: the output is a subsequence, and the arguments
\* are left unchanged
C10_SubsequenceAndFrameOnly ==
  [][ (pc = "filter" /\ pc' = "done") =>
        /\ IsSubsequence(android_clean', google_data)
        /\ (NoNaNReviews => Len(android_clean') = Cardinality(DOMAIN reviews_max))
        /\ google_data' = google_data
        /\ reviews_max' = reviews_max ]_vars

(* ------------------------- is_english alone --------------------------- *)
\* "A", DEL (the last code point not above 127), U+0080, the trademark sign
LangCodePoints == {65, 127, 128, 8482}

LangNames == SeqsUpTo(LangCodePoints, MaxNameLen)

InitLang ==
  /\ pc = "call" /\ err = "none"
  /\ name \in LangNames
  /\ english = FALSE
  /\ NoCall /\ NoData /\ NoHeaders /\ NoDedup /\ NoFilter /\ NoAnalysis /\ NoStages

\* english = is_english(name)
IsEnglish ==
  /\ pc = "call"
  /\ english' = is_english(name)
  /\ pc' = "returned"
  /\ UNCHANGED <<err, name, callVars, dataVars, headerVars, dedupVars, filterVars,
                 analysisVars, stageVars>>

NextLang == IsEnglish

SpecLang == InitLang /\ [][NextLang]_vars

\* the positions of s holding a code point above 127
NonAsciiPositions(s) == { i \in DOMAIN s : s[i] > 127 }

\* C6: is_english returns false exactly when more than 3 characters of the
\* name have a code point above 127, wherever they are; the early return
\* gives what counting the whole string gives.
C6_EnglishIffAtMostThreeNonAscii ==
  (pc = "returned") =>
     (english = FALSE <=> Cardinality(NonAsciiPositions(name)) > 3)

\* a name rejected at its fourth non-ASCII character, before its end, and
\* whose other character is the code point 127
C6_Witness ==
  /\ pc = "returned" /\ english = FALSE
  /\ Len(name) = 5
  /\ NonAsciiPositions(name) = {1, 2, 3, 4}
  /\ name[5] = 127

\* a name with exactly three non-ASCII characters, apart, is English
C6_WitnessThree ==
  /\ pc = "returned" /\ english = TRUE
  /\ NonAsciiPositions(name) = {1, 3, 5}

(* ------------------- filter_english_and_free alone -------------------- *)
\* an App Store row: id, track_name, size_bytes, currency, price,
\* rating_count_tot, ..., prime_genre at index 11
AppleRow(app_name, price, rating, genre) ==
  <<<<>>, app_name, <<>>, <<>>, price, rating, <<>>, <<>>, <<>>, <<>>, <<>>, genre>>

FilterGoogleRows ==
  { GoogleRow(str_A, str_GAME, str_9, str_10_plus, str_0),
    GoogleRow(str_A, str_GAME, str_9, str_10_plus, str_0_0),
    GoogleRow(str_cjk, str_GAME, str_9, str_10_plus, str_0),
    <<str_A>> }

FilterAppleRows ==
  { AppleRow(str_A, str_0_0, str_9, str_GAME),
    AppleRow(str_A, str_0, str_9, str_GAME),
    AppleRow(str_A, str_0_00, str_9, str_GAME),
    AppleRow(str_tm3, str_1_99, str_9, str_GAME),
    AppleRow(str_cjk, str_0, str_9, str_GAME) }

InitFilter ==
  /\ pc = "call" /\ err = "none"
  /\ google_data \in SeqsUpTo(FilterGoogleRows, MaxFilterRows)
  /\ apple_data \in SeqsUpTo(FilterAppleRows, MaxFilterRows)
  /\ NoCall /\ NoHeaders /\ NoDedup /\ NoFilter /\ NoAnalysis /\ NoLang /\ NoStages

\* android_free, apple_free = filter_english_and_free(google_data, apple_data)
FilterEnglishAndFree ==
  /\ pc = "call"
  /\ LET r == filter_english_and_free(google_data, apple_data)
     IN  IF r.err # "none"
         THEN /\ err' = r.err /\ pc' = "failed" /\ UNCHANGED filterVars
         ELSE /\ android_english' = r.val.android_english
              /\ ios_english' = r.val.ios_english
              /\ android_free' = r.val.android_free
              /\ apple_free' = r.val.apple_free
              /\ pc' = "filtered" /\ UNCHANGED err
  /\ UNCHANGED <<callVars, dataVars, headerVars, dedupVars, analysisVars,
                 langVars, stageVars>>

NextFilter == FilterEnglishAndFree

SpecFilter == InitFilter /\ [][NextFilter]_vars

\* the indices of the rows of data whose field at index has a value in accepted
PricedIn(data, index, accepted) ==
  { i \in DOMAIN data : data[i][index + 1] \in accepted }

\* C8: the price filter keeps a row exactly when its price field is the
\* string "0.0" or "0" (Apple, field 4) or the string "0" (Google, field 7);
\* every other string, "0.00" included, is rejected, and the rows kept keep
\* their relative order.
C8_PriceFilterExactStrings ==
  (pc = "filtered") =>
     /\ apple_free = RowsAt(ios_english, PricedIn(ios_english, 4, {str_0_0, str_0}))
     /\ android_free = RowsAt(android_english, PricedIn(android_english, 7, {str_0}))
     /\ \A i \in DOMAIN apple_free : apple_free[i][5] # str_0_00
     /\ \A i \in DOMAIN android_free : android_free[i][8] # str_0_0

\* "0.00" (Apple) and "0.0" (Google) were rejected, the row after each kept
C8_Witness ==
  /\ pc = "filtered"
  /\ Len(ios_english) = 2
  /\ ios_english[1][5] = str_0_00 /\ ios_english[2][5] = str_0_0
  /\ apple_free = <<ios_english[2]>>
  /\ Len(android_english) = 2
  /\ android_english[1][8] = str_0_0 /\ android_english[2][8] = str_0
  /\ android_free = <<android_english[2]>>

(* --------------------- the aggregate analyzers alone ------------------ *)
AnalysisAppleRows ==
  { AppleRow(str_A, str_0, r, g) : r \in {str_5, str_9, str_3_0M},
                                   g \in {str_GAME, str_TOOLS} }
    \cup { <<<<>>, str_A>> }

AnalysisGoogleRows ==
  { GoogleRow(str_A, c, str_9, n, str_0) :
      c \in {str_GAME, str_TOOLS}, n \in {str_10_plus, str_1_000_plus, str_Free} }
    \cup { <<str_A, str_GAME>> }

InitAnalysis ==
  /\ err = "none"
  /\ \/ /\ pc = "apple"
        /\ apple_data \in SeqsUpTo(AnalysisAppleRows, MaxAnalysisRows)
        /\ google_data = <<>>
     \/ /\ pc = "google"
        /\ google_data \in SeqsUpTo(AnalysisGoogleRows, MaxAnalysisRows)
        /\ apple_data = <<>>
  /\ NoCall /\ NoHeaders /\ NoDedup /\ NoFilter /\ NoAnalysis /\ NoLang /\ NoStages

\* apple_genre_avgs = compute_apple_genre_avg_ratings(apple_data)
ComputeAppleGenreAvgRatings ==
  /\ pc = "apple"
  /\ LET r == compute_apple_genre_avg_ratings(apple_data)
     IN  IF r.err # "none"
         THEN /\ err' = r.err /\ pc' = "failed" /\ UNCHANGED apple_genre_avgs
         ELSE /\ apple_genre_avgs' = r.val /\ pc' = "apple_done" /\ UNCHANGED err
  /\ UNCHANGED <<google_category_avgs, callVars, dataVars, headerVars, dedupVars,
                 filterVars, langVars, stageVars>>

\* google_category_avgs = compute_google_category_avg_installs(google_data)
ComputeGoogleCategoryAvgInstalls ==
  /\ pc = "google"
  /\ LET r == compute_google_category_avg_installs(google_data)
     IN  IF r.err # "none"
         THEN /\ err' = r.err /\ pc' = "failed" /\ UNCHANGED google_category_avgs
         ELSE /\ google_category_avgs' = r.val /\ pc' = "google_done" /\ UNCHANGED err
  /\ UNCHANGED <<apple_genre_avgs, callVars, dataVars, headerVars, dedupVars,
                 filterVars, langVars, stageVars>>

NextAnalysis == ComputeAppleGenreAvgRatings \/ ComputeGoogleCategoryAvgInstalls

SpecAnalysis == InitAnalysis /\ [][NextAnalysis]_vars

\* the indices of the rows of data whose field at index is g
InGroup(data, index, g) == { i \in DOMAIN data : data[i][index + 1] = g }

\* results has one entry for each value of the field at index in data, and
\* each entry divides by the number of rows of its group
OneEntryPerGroup(results, data, index) ==
  LET groups == { data[i][index + 1] : i \in DOMAIN data }
  IN  /\ Range(results.keys) = groups
      /\ DOMAIN results.at = groups
      /\ Len(results.keys) = Cardinality(groups)
      /\ results.keys = freq_table(data, index).val.keys
      /\ \A g \in groups :
           /\ results.at[g].count = Cardinality(InGroup(data, index, g))
           /\ results.at[g].count >= 1

\* C9: in both analyzers, for every dataset, the empty one included, the keys
\* iterated are the keys of freq_table over the same dataset, every divisor is
\* the row count of its group and at least 1, no division by zero happens,
\* and the result has exactly one entry per distinct group value.
C9_NoDivisionByZero ==
  /\ err # "ZeroDivisionError"
  /\ (pc = "apple_done") => OneEntryPerGroup(apple_genre_avgs, apple_data, 11)
  /\ (pc = "google_done") => OneEntryPerGroup(google_category_avgs, google_data, 1)

\* two genres, one of them with two rows, each averaged over its own rows
C9_Witness ==
  /\ pc = "apple_done"
  /\ Len(apple_data) = 3
  /\ apple_genre_avgs.keys = <<str_GAME, str_TOOLS>>
  /\ apple_genre_avgs.at[str_GAME].count = 2
  /\ apple_genre_avgs.at[str_TOOLS].count = 1

\* the empty dataset gives the empty result, with no division made
C9_WitnessEmpty ==
  pc = "google_done" /\ google_data = <<>> /\ google_category_avgs = EmptyDict

(* -------------------------------- main -------------------------------- *)
GoogleHeader == GoogleRow(str_x, str_x, str_x, str_x, str_x)

AppleHeader == AppleRow(str_x, str_x, str_x, str_x)

\* rows a googleplaystore.csv can hold; the last one lacks columns, as the
\* known bad row of the real file does
MainGoogleRows ==
  { GoogleRow(str_A, str_GAME, str_5, str_10_plus, str_0),
    GoogleRow(str_A, str_GAME, str_9, str_1_000_plus, str_0),
    GoogleRow(str_B, str_TOOLS, str_9, str_10_plus, str_1_99),
    GoogleRow(str_cjk, str_TOOLS, str_5, str_10_plus, str_0),
    GoogleRow(str_B, str_TOOLS, str_3_0M, str_10_plus, str_0),
    <<str_A, str_GAME>> }

\* rows an AppleStore.csv can hold: two rows of one name, and a short row
MainAppleRows ==
  { AppleRow(str_A, str_0_0, str_9, str_GAME),
    AppleRow(str_A, str_0, str_5, str_GAME),
    AppleRow(str_B, str_1_99, str_9, str_TOOLS),
    AppleRow(str_cjk, str_0_0, str_9, str_TOOLS),
    <<<<>>, str_A>> }

\* what opencsv can return: an empty file, or a header and some rows
GoogleFiles ==
  {<<>>} \cup { <<GoogleHeader>> \o rows : rows \in SeqsUpTo(MainGoogleRows, MaxFileRows) }

AppleFiles ==
  {<<>>} \cup { <<AppleHeader>> \o rows : rows \in SeqsUpTo(MainAppleRows, MaxFileRows) }

\* hdataset = dataset[0]; dataset = dataset[1:]
separatefromheader(dataset) ==
  IF ~InRange(dataset, 0) THEN Raise("IndexError")
  ELSE Ok([dataset |-> Tail(dataset), hdataset |-> Item(dataset, 0)])

InitMain ==
  /\ pc = "start" /\ err = "none"
  /\ NoCall /\ NoData /\ NoHeaders /\ NoDedup /\ NoFilter /\ NoAnalysis /\ NoLang
  /\ NoStages

Fail(kind) == err' = kind /\ pc' = "failed"

\* load_and_clean_datasets: both files are read, the headers are split off
\* (Google's first), and delwrongdata runs on the Google rows only
MainLoadAndClean ==
  /\ pc = "start"
  /\ \E google_file \in GoogleFiles, apple_file \in AppleFiles :
       LET g == separatefromheader(google_file)
           a == separatefromheader(apple_file)
       IN  IF g.err # "none"
           THEN Fail(g.err) /\ UNCHANGED <<dataVars, headerVars, stageVars>>
           ELSE IF a.err # "none"
           THEN Fail(a.err) /\ UNCHANGED <<dataVars, headerVars, stageVars>>
           ELSE LET v == delwrongdata(g.val.dataset)
                IN  IF v.err # "none"
                    THEN Fail(v.err) /\ UNCHANGED <<dataVars, headerVars, stageVars>>
                    ELSE /\ google_data' = v.val
                         /\ apple_data' = a.val.dataset
                         /\ header_google_data' = g.val.hdataset
                         /\ header_apple_data' = a.val.hdataset
                         /\ stagesGoogle' = Append(stagesGoogle, "validation")
                         /\ UNCHANGED stagesApple
                         /\ pc' = "loaded" /\ UNCHANGED err
  /\ UNCHANGED <<callVars, dedupVars, filterVars, analysisVars, langVars>>

\* a main whose step 2 hands google_data on without resolving duplicates
MainSkipGoogleDuplicates ==
  /\ pc = "loaded"
  /\ pc' = "deduped"
  /\ UNCHANGED <<err, dataVars, stageVars, dedupVars, callVars, headerVars,
                 filterVars, analysisVars, langVars>>

\* the prints and explore_data calls (slices, which never raise), then
\* google_data = clean_google_duplicates(google_data); apple_data is not passed
MainCleanGoogleDuplicates ==
  /\ pc = "loaded"
  /\ LET f == finduplicate(google_data)
         index == createdicodup(google_data)
     IN  IF f.err # "none"
         THEN Fail(f.err) /\ UNCHANGED <<google_data, stagesGoogle, dedupVars>>
         ELSE IF index.err # "none"
         THEN Fail(index.err) /\ UNCHANGED <<google_data, stagesGoogle, dedupVars>>
         ELSE LET clean == deldupdata(google_data, index.val)
              IN  IF clean.err # "none"
                  THEN Fail(clean.err)
                       /\ UNCHANGED <<google_data, stagesGoogle, dedupVars>>
                  ELSE /\ reviews_max' = index.val
                       /\ android_clean' = clean.val
                       /\ google_data' = clean.val
                       /\ stagesGoogle' = Append(stagesGoogle, "duplicates")
                       /\ pc' = "deduped" /\ UNCHANGED err
  /\ UNCHANGED <<apple_data, stagesApple, callVars, headerVars, filterVars,
                 analysisVars, langVars>>

\* google_data, apple_data = filter_english_and_free(google_data, apple_data)
MainFilterEnglishAndFree ==
  /\ pc = "deduped"
  /\ LET r == filter_english_and_free(google_data, apple_data)
     IN  IF r.err # "none"
         THEN Fail(r.err) /\ UNCHANGED <<dataVars, stageVars, filterVars>>
         ELSE /\ android_english' = r.val.android_english
              /\ ios_english' = r.val.ios_english
              /\ android_free' = r.val.android_free
              /\ apple_free' = r.val.apple_free
              /\ google_data' = r.val.android_free
              /\ apple_data' = r.val.apple_free
              /\ stagesGoogle' = stagesGoogle \o <<"language", "price">>
              /\ stagesApple' = stagesApple \o <<"language", "price">>
              /\ pc' = "filtered" /\ UNCHANGED err
  /\ UNCHANGED <<callVars, headerVars, dedupVars, analysisVars, langVars>>

\* apple_genre_avgs = compute_apple_genre_avg_ratings(apple_data), printed
MainComputeApple ==
  /\ pc = "filtered"
  /\ LET r == compute_apple_genre_avg_ratings(apple_data)
     IN  IF r.err # "none"
         THEN Fail(r.err) /\ UNCHANGED <<apple_genre_avgs, stagesApple>>
         ELSE /\ apple_genre_avgs' = r.val
              /\ stagesApple' = Append(stagesApple, "aggregation")
              /\ pc' = "apple_done" /\ UNCHANGED err
  /\ UNCHANGED <<google_category_avgs, stagesGoogle, callVars, dataVars,
                 headerVars, dedupVars, filterVars, langVars>>

\* google_category_avgs = compute_google_category_avg_installs(google_data)
MainComputeGoogle ==
  /\ pc = "apple_done"
  /\ LET r == compute_google_category_avg_installs(google_data)
     IN  IF r.err # "none"
         THEN Fail(r.err) /\ UNCHANGED <<google_category_avgs, stagesGoogle>>
         ELSE /\ google_category_avgs' = r.val
              /\ stagesGoogle' = Append(stagesGoogle, "aggregation")
              /\ pc' = "done" /\ UNCHANGED err
  /\ UNCHANGED <<apple_genre_avgs, stagesApple, callVars, dataVars,
                 headerVars, dedupVars, filterVars, langVars>>

NextMain ==
  \/ MainLoadAndClean
  \/ MainCleanGoogleDuplicates
  \/ MainFilterEnglishAndFree
  \/ MainComputeApple
  \/ MainComputeGoogle

SpecMain == InitMain /\ [][NextMain]_vars

IsPrefix(s, t) == Len(s) <= Len(t) /\ s = SubSeq(t, 1, Len(s))

AllStages == <<"validation", "duplicates", "language", "price", "aggregation">>

AppleStages == <<"language", "price", "aggregation">>

\* no two rows of data have the same field at index
DistinctAt(data, index) ==
  \A i, j \in DOMAIN data : data[i][index + 1] = data[j][index + 1] => i = j

\* C7 (as amended): the Google dataset passes through validation, duplicate
\* resolution, language filtering, price filtering and aggregation in that
\* order; the Apple dataset passes through language filtering, price
\* filtering and aggregation only, in that order: validation and duplicate
\* resolution never run on it.  No stage runs before an earlier one, and a
\* finished run has skipped none of these.
C7_StagesForwardGoogleFullAppleFiltered ==
  /\ IsPrefix(stagesGoogle, AllStages)
  /\ IsPrefix(stagesApple, AppleStages)
  /\ (pc = "done") => (stagesGoogle = AllStages /\ stagesApple = AppleStages)
  /\ (pc \in {"deduped", "filtered", "apple_done", "done"}) =>
        /\ DistinctAt(google_data, GoogleNameIdx)
        /\ \A i, j \in DOMAIN google_data : Len(google_data[i]) = Len(google_data[j])
  /\ (pc \in {"filtered", "apple_done", "done"}) =>
        /\ \A i \in DOMAIN google_data :
             is_english(google_data[i][1]) /\ google_data[i][8] = str_0
        /\ \A i \in DOMAIN apple_data :
             is_english(apple_data[i][2]) /\ apple_data[i][5] \in {str_0, str_0_0}

\* a finished run whose Apple result still holds two rows of one name
C7_Witness ==
  /\ pc = "done"
  /\ stagesGoogle = AllStages /\ stagesApple = AppleStages
  /\ Len(apple_data) = 2
  /\ ~DistinctAt(apple_data, AppleNameIdx)
  /\ Len(google_data) = 1

\* C7 (as claimed): each of the two datasets passes through validation,
\* duplicate resolution, language filtering, price filtering and aggregation
\* in that order, with no stage skipped for either.
C7_BothDatasetsAllStages ==
  /\ IsPrefix(stagesGoogle, AllStages)
  /\ IsPrefix(stagesApple, AllStages)
  /\ (pc = "done") => (stagesGoogle = AllStages /\ stagesApple = AllStages)

====
